---- MODULE Spec2Model ----
(***************************************************************************)
(* A model of the Dog Walking Map dashboard (src/streamlit_app.py):        *)
(* load_sheet_data (the normaliser and its cache), generate_colors,        *)
(* the search filter, the edit selector and update_sheet_cell.             *)
(*                                                                         *)
(* Texts are sequences of one-character strings, so that trimming,         *)
(* parsing, splitting and matching are computed character by character.    *)
(***************************************************************************)
EXTENDS Integers, Sequences, FiniteSets, TLC

VARIABLES
  sheet,          \* the persisted store: worksheet.get_all_values(), header row first
  cache,          \* st.cache_data's entry for load_sheet_data: NoEntry or its result
  cacheAge,       \* seconds since the entry was stored
  df,             \* the Table the last call of load_sheet_data returned
  worksheet,      \* the store handle it returned
  fetched,        \* whether that call ran the function body (re-read the store)
  load_error,     \* the step whose failure st.error reported in that call, or "none"
  search_term,    \* the search box
  display_df,     \* the displayed subset
  unique_values,  \* the distinct values of the colour column, first seen first
  color_map,      \* generate_colors' result, as a sequence of <<value, colour>>
  selected,       \* the position, in the selector, of the option the user picked
  selected_idx,   \* the row index the edit is dispatched with
  updates,        \* the (field name, value) pairs of the edit request
  writes,         \* the calls of worksheet.update_cell, in order
  success_count,  \* the count the edit reports
  lastRun         \* what the last run of the script did

vars == <<sheet, cache, cacheAge, df, worksheet, fetched, load_error, search_term,
          display_df, unique_values, color_map, selected, selected_idx, updates,
          writes, success_count, lastRun>>

cacheVars == <<cache, cacheAge>>
loadVars == <<df, worksheet, fetched, load_error>>
uiVars == <<search_term, display_df, unique_values, color_map>>
editVars == <<selected, selected_idx, updates, writes, success_count>>

-----------------------------------------------------------------------------
(* Bounds of the model *)

MaxCellLen == 3
MaxRows == 2
MaxCats == 52
MaxUpdates == 4
MaxRowIdx == 3
MaxQueryLen == 2
TickSeconds == 150

-----------------------------------------------------------------------------
(* Texts *)

Empty == << >>

IsSpace(c) == c = " "

RECURSIVE LStrip(_)
LStrip(t) == IF t # << >> /\ IsSpace(Head(t)) THEN LStrip(Tail(t)) ELSE t

RECURSIVE RStrip(_)
RStrip(t) ==
  IF t # << >> /\ IsSpace(t[Len(t)]) THEN RStrip(SubSeq(t, 1, Len(t) - 1)) ELSE t

\* str.strip()
Strip(t) == RStrip(LStrip(t))

\* seq[:n]
Take(s, n) == SubSeq(s, 1, IF Len(s) < n THEN Len(s) ELSE n)

Min(a, b) == IF a < b THEN a ELSE b

-----------------------------------------------------------------------------
(* pd.to_numeric(..., errors='coerce') on one cell *)

Digits == {"0", "1", "2", "3", "4", "5", "6", "7", "8", "9"}

DigitVal(c) ==
  CASE c = "0" -> 0 [] c = "1" -> 1 [] c = "2" -> 2 [] c = "3" -> 3 [] c = "4" -> 4
    [] c = "5" -> 5 [] c = "6" -> 6 [] c = "7" -> 7 [] c = "8" -> 8 [] c = "9" -> 9

NaN == [kind |-> "nan", neg |-> FALSE, mant |-> 0, scale |-> 0]
Inf(neg) == [kind |-> "inf", neg |-> neg, mant |-> 0, scale |-> 0]

\* the number mant / 10^scale, without the trailing zeros of its fraction
RECURSIVE Fin(_, _, _)
Fin(neg, mant, scale) ==
  IF scale > 0 /\ mant % 10 = 0
    THEN Fin(neg, mant \div 10, scale - 1)
    ELSE [kind |-> "fin", neg |-> neg, mant |-> mant, scale |-> scale]

\* the longest prefix of digits of t
RECURSIVE DigitRun(_)
DigitRun(t) ==
  IF t # << >> /\ Head(t) \in Digits THEN <<Head(t)>> \o DigitRun(Tail(t)) ELSE << >>

RECURSIVE DigitsValue(_, _)
DigitsValue(t, acc) ==
  IF t = << >> THEN acc ELSE DigitsValue(Tail(t), 10 * acc + DigitVal(Head(t)))

\* the C parser: blanks, a sign, digits, a point and digits, blanks, and nothing else
xstrtod(t) ==
  LET s0 == LStrip(t)
      neg == s0 # << >> /\ Head(s0) = "-"
      s1 == IF s0 # << >> /\ Head(s0) \in {"-", "+"} THEN Tail(s0) ELSE s0
      ip == DigitRun(s1)
      s2 == SubSeq(s1, Len(ip) + 1, Len(s1))
      pt == s2 # << >> /\ Head(s2) = "."
      s3 == IF pt THEN Tail(s2) ELSE s2
      fp == IF pt THEN DigitRun(s3) ELSE << >>
      s4 == SubSeq(s3, Len(fp) + 1, Len(s3))
  IN  IF Len(ip) + Len(fp) > 0 /\ LStrip(s4) = << >>
        THEN Fin(neg, DigitsValue(ip \o fp, 0), Len(fp))
        ELSE NaN

\* floatify: the C parser, then the spellings of infinity; coerce makes the rest NaN
to_numeric(t) ==
  LET n == xstrtod(t)
  IN  IF n.kind = "fin" THEN n
      ELSE IF t \in {<<"i", "n", "f">>, <<"+", "i", "n", "f">>} THEN Inf(FALSE)
      ELSE IF t = <<"-", "i", "n", "f">> THEN Inf(TRUE)
      ELSE NaN

IsNaN(n) == n.kind = "nan"
IsFinite(n) == n.kind = "fin"
IsZero(n) == n.kind = "fin" /\ n.mant = 0

One == Fin(FALSE, 1, 0)

-----------------------------------------------------------------------------
(* load_sheet_data: the Table built from the feed *)

expected_headers ==
  <<"Address", "Dog Name", "District", "Latitude", "Longitude", "Number of dogs",
    "Filter", "Today", "Group", "Dog ID", "New Assignment">>

NCols == Len(expected_headers)

\* the record of data row i (1-based in data_rows): the index label is its 0-based
\* position among the feed's data rows, and filtering never relabels it
FrameRow(i, row) ==
  [c \in {expected_headers[k] : k \in 1..NCols} \cup {"idx"} |->
     IF c = "idx" THEN i - 1
     ELSE row[CHOOSE k \in 1..NCols : expected_headers[k] = c]]

\* data_rows = [row[:len(expected_headers)] for row in all_values[1:]]
data_rows(all_values) ==
  [i \in 1..(Len(all_values) - 1) |-> Take(all_values[i + 1], NCols)]

\* pd.DataFrame(data_rows, columns=expected_headers) raises when the rows it is
\* given do not have one cell per column (get_all_values returns rows of one width)
FrameRaises(all_values) ==
  /\ Len(all_values) > 1
  /\ \E i \in 1..(Len(all_values) - 1) : Len(data_rows(all_values)[i]) # NCols

DataFrame(all_values) ==
  IF Len(all_values) = 0 THEN << >>
  ELSE LET rows == data_rows(all_values)
       IN  [i \in 1..Len(rows) |-> FrameRow(i, rows[i])]

\* df['Address'].astype(str).str.strip() != ''
HasAddress(r) == Strip(r["Address"]) # Empty

\* the four conditions of the coordinate filter
HasCoordinates(r) ==
  /\ Strip(r["Latitude"]) # Empty
  /\ Strip(r["Longitude"]) # Empty
  /\ r["Latitude"] # <<"0">>
  /\ r["Longitude"] # <<"0">>

\* fillna(1) on the converted count
FillOne(n) == IF IsNaN(n) THEN One ELSE n

\* the three pd.to_numeric conversions
Convert(r) ==
  [r EXCEPT !["Latitude"] = to_numeric(r["Latitude"]),
            !["Longitude"] = to_numeric(r["Longitude"]),
            !["Number of dogs"] = FillOne(to_numeric(r["Number of dogs"]))]

\* dropna(subset=['Latitude', 'Longitude'])
NotNA(r) == ~IsNaN(r["Latitude"]) /\ ~IsNaN(r["Longitude"])

\* the cleaning steps, in the order of the code
Normalize(frame) ==
  IF frame = << >> THEN frame
  ELSE LET a == SelectSeq(frame, HasAddress)
           b == SelectSeq(a, HasCoordinates)
           c == [i \in 1..Len(b) |-> Convert(b[i])]
       IN  SelectSeq(c, NotNA)

NULL == "None"
Handle == "worksheet"

\* the cache of load_sheet_data, which takes no argument: one entry or none
NoEntry == [full |-> FALSE, df |-> << >>, worksheet |-> NULL, error |-> "none"]
Entry(r) == [full |-> TRUE, df |-> r.df, worksheet |-> r.worksheet, error |-> r.error]

\* the steps of the try block that can fail before the frame is built
FetchSteps == {"credentials", "open", "worksheet", "read"}
FetchOutcomes == FetchSteps \cup {"ok"}

\* a variant that hands the caller a handle with the empty Table
FailedKeepingHandle(step) == [df |-> << >>, worksheet |-> Handle, error |-> step]

\* except Exception: st.error(...); return pd.DataFrame(), None
Failed(step) == [df |-> << >>, worksheet |-> NULL, error |-> step]

\* the function body: out is the step that raises, or "ok"
load_body(out, all_values) ==
  IF out # "ok" THEN Failed(out)
  ELSE IF FrameRaises(all_values) THEN Failed("frame")
  ELSE [df |-> Normalize(DataFrame(all_values)), worksheet |-> Handle, error |-> "none"]

TTL == 300

\* @st.cache_data(ttl=300): an entry younger than the ttl is served
CacheHit == cache.full /\ cacheAge < TTL

load_sheet_data(out) ==
  IF CacheHit
    THEN [df |-> cache.df, worksheet |-> cache.worksheet, error |-> cache.error]
  ELSE load_body(out, sheet)

\* the age of the entry a call leaves in the cache
AgeAfterLoad == IF CacheHit THEN cacheAge ELSE 0

-----------------------------------------------------------------------------
(* Feeds *)

Blank == Empty
HeaderRow == [k \in 1..NCols |-> <<"h">>]

MkRow(addr, name, district, lat, lon, num, filter) ==
  <<addr, name, district, lat, lon, num, filter, Blank, Blank, Blank, Blank>>

RECURSIVE TextsOfLen(_, _)
TextsOfLen(chars, n) ==
  IF n = 0 THEN {<< >>}
  ELSE {<<c>> \o t : c \in chars, t \in TextsOfLen(chars, n - 1)}

TextsUpTo(chars, n) == UNION {TextsOfLen(chars, k) : k \in 0..n}

-----------------------------------------------------------------------------
(* The state a script run starts from, and the parts a run does not reach *)

NoSelection == 0
NoIndex == -1

\* the widgets and results of a run that ended before reaching them
UiIdle ==
  /\ search_term' = Empty
  /\ display_df' = << >>
  /\ unique_values' = << >>
  /\ color_map' = << >>

EditIdle ==
  /\ selected' = NoSelection
  /\ selected_idx' = NoIndex
  /\ updates' = << >>
  /\ writes' = << >>
  /\ success_count' = 0

InitRest ==
  /\ cache = NoEntry
  /\ cacheAge = 0
  /\ df = << >>
  /\ worksheet = NULL
  /\ fetched = FALSE
  /\ load_error = "none"
  /\ search_term = Empty
  /\ display_df = << >>
  /\ unique_values = << >>
  /\ color_map = << >>
  /\ selected = NoSelection
  /\ selected_idx = NoIndex
  /\ updates = << >>
  /\ writes = << >>
  /\ success_count = 0
  /\ lastRun = "none"

\* what a call of the cached function, which returned r, gives the script
Returned(r) ==
  /\ df' = r.df
  /\ worksheet' = r.worksheet
  /\ load_error' = r.error
  /\ fetched' = ~CacheHit

\* what the call leaves in the cache
Cached(r) ==
  /\ cache' = Entry(r)
  /\ cacheAge' = AgeAfterLoad

\* st.cache_data.clear()
Cleared ==
  /\ cache' = NoEntry
  /\ cacheAge' = 0

CallLoad(r) == Returned(r) /\ Cached(r)

-----------------------------------------------------------------------------
(* The normaliser on its own: every feed of one probing row, whose latitude  *)
(* or longitude is any text of at most MaxCellLen characters, and an         *)
(* optional second row.                                                      *)

CoordChars == {" ", "0", "4", ".", "-", "i", "n", "f"}
CoordTexts(n) == TextsUpTo(CoordChars, n)
PlainCoords == {<<"4">>, <<"0">>, Empty}

GoodRow == MkRow(<<"b">>, <<"F">>, <<"N">>, <<"4", ".", "7">>, <<"-", "7", "4">>, <<"2">>, <<"A">>)

\* the rows one of whose coordinates is any text of at most n characters
ProbeRows(n) ==
  {MkRow(a, <<"R">>, <<"N">>, lat, lon, Empty, <<"A">>) :
     a \in {<<"a">>, <<" ">>}, lat \in CoordTexts(n), lon \in PlainCoords}
  \cup
  {MkRow(a, <<"R">>, <<"N">>, lat, lon, Empty, <<"A">>) :
     a \in {<<"a">>, <<" ">>}, lat \in PlainCoords, lon \in CoordTexts(n)}

NormFeeds(n) ==
  {<<HeaderRow, r>> : r \in ProbeRows(n)}
  \cup {<<HeaderRow, r, GoodRow>> : r \in ProbeRows(n)}

InitNorm == sheet \in NormFeeds(MaxCellLen) /\ InitRest

NormLoad ==
  /\ \E out \in FetchOutcomes : \E L \in {load_sheet_data(out)} : CallLoad(L)
  /\ lastRun' = "load"
  /\ UNCHANGED <<sheet, uiVars, editVars>>

NextNorm == NormLoad

SpecNorm == InitNorm /\ [][NextNorm]_vars

\* the feed cell a record of the Table was built from
RawCell(r, k) == sheet[r["idx"] + 2][k]

LatCol == 4
LonCol == 5

BlankOrZero(t) == Strip(t) \in {Empty, <<"0">>}

\* C1: no record of the Table load_sheet_data returns was built from a row whose
\* Latitude or Longitude cell is, once trimmed, empty or the literal "0".
C1_NoBlankOrZeroCoordinate ==
  lastRun = "load" =>
    \A i \in 1..Len(df) :
      ~BlankOrZero(RawCell(df[i], LatCol)) /\ ~BlankOrZero(RawCell(df[i], LonCol))

\* C2: every record of the Table load_sheet_data returns has a latitude and a
\* longitude that are both finite and both non-zero.
C2_FiniteNonZero ==
  lastRun = "load" =>
    \A i \in 1..Len(df) :
      /\ IsFinite(df[i]["Latitude"]) /\ ~IsZero(df[i]["Latitude"])
      /\ IsFinite(df[i]["Longitude"]) /\ ~IsZero(df[i]["Longitude"])

-----------------------------------------------------------------------------
(* generate_colors *)

vibrant_colors ==
  <<"#FF6B6B", "#4ECDC4", "#45B7D1", "#96CEB4", "#FFEAA7",
    "#DDA0DD", "#98D8C8", "#FFD93D", "#6C5CE7", "#A29BFE",
    "#FD79A8", "#FDCB6E", "#6C5CE7", "#00B894", "#E17055",
    "#81ECEC", "#FF7675", "#74B9FF", "#00CEC9", "#FDCB6E",
    "#E84393", "#00B894", "#0984E3", "#6C5CE7", "#FD79A8",
    "#FDCB6E", "#55A3FF", "#FF6348", "#26DE81", "#FC427B",
    "#FD79A8", "#FDCB6E", "#55A3FF", "#FF6348", "#26DE81",
    "#FF9F43", "#70A1FF", "#5352ED", "#FF3838", "#2ED573",
    "#1E90FF", "#FF6B35", "#F7931E", "#FFD23F", "#EE5A24",
    "#009432", "#006BA6", "#0582CA", "#00A8CC", "#F18F01">>

\* a colour token: a palette entry, or "hsl(<hue>, 85%, 55%)"
Hex(h) == [kind |-> "hex", hex |-> h, hue |-> 0]
Hsl(hue) == [kind |-> "hsl", hex |-> "", hue |-> hue]

\* the golden angle 137.508, in thousandths of a degree
GoldenAngleMilli == 137508
FullTurnMilli == 360000

\* f"{hue:.0f}" of (base_hue + i * 137.508) % 360, computed in thousandths (no i
\* below 125 lands on a half, where the rounding of the float would matter)
FallbackHue(i, base_hue) ==
  (((base_hue * 1000 + i * GoldenAngleMilli) % FullTurnMilli) + 500) \div 1000

\* the colour of the value at 0-based position i
ColorAt(i, base_hue) ==
  IF i < Len(vibrant_colors) THEN Hex(vibrant_colors[i + 1])
  ELSE Hsl(FallbackHue(i, base_hue))

\* the dict, in insertion order: one <<value, colour>> per distinct value
generate_colors(values, base_hue) ==
  [k \in 1..Len(values) |-> <<values[k], ColorAt(k - 1, base_hue)>>]

-----------------------------------------------------------------------------
(* generate_colors on its own: every run of up to MaxCats distinct category  *)
(* values, taken round a pool from any start, in either direction.           *)

\* the runs of at most max values round a pool of max + 1
CategoryRuns(max) ==
  {[k \in 1..n |-> (s + k * step) % (max + 1)] :
     n \in 0..max, s \in 0..max, step \in {1, max}}

InitColors ==
  /\ sheet = <<HeaderRow>>
  /\ cache = NoEntry
  /\ cacheAge = 0
  /\ df = << >>
  /\ worksheet = NULL
  /\ fetched = FALSE
  /\ load_error = "none"
  /\ search_term = Empty
  /\ display_df = << >>
  /\ unique_values \in CategoryRuns(MaxCats)
  /\ color_map = << >>
  /\ selected = NoSelection
  /\ selected_idx = NoIndex
  /\ updates = << >>
  /\ writes = << >>
  /\ success_count = 0
  /\ lastRun = "none"

AssignColors ==
  /\ lastRun = "none"
  /\ color_map' = generate_colors(unique_values, 0)
  /\ lastRun' = "colors"
  /\ UNCHANGED <<sheet, cacheVars, loadVars, search_term, display_df, unique_values,
                 editVars>>

NextColors == AssignColors

SpecColors == InitColors /\ [][NextColors]_vars

Injective(m) ==
  \A i, j \in 1..Len(m) : m[i][2] = m[j][2] => i = j

\* C3: for at most len(vibrant_colors) distinct values, the i-th value gets
\* palette[i] and no two values get the same colour token.
C3_PaletteInjective ==
  (lastRun = "colors" /\ Len(unique_values) <= Len(vibrant_colors)) =>
    /\ Len(color_map) = Len(unique_values)
    /\ \A i \in 1..Len(color_map) :
         color_map[i] = <<unique_values[i], Hex(vibrant_colors[i])>>
    /\ Injective(color_map)

-----------------------------------------------------------------------------
(* main: the search filter *)

UpperCase ==
  <<"A", "B", "C", "D", "E", "F", "G", "H", "I", "J", "K", "L", "M",
    "N", "O", "P", "Q", "R", "S", "T", "U", "V", "W", "X", "Y", "Z">>
LowerCase ==
  <<"a", "b", "c", "d", "e", "f", "g", "h", "i", "j", "k", "l", "m",
    "n", "o", "p", "q", "r", "s", "t", "u", "v", "w", "x", "y", "z">>

\* re.IGNORECASE on one character
Lower(c) ==
  IF \E k \in 1..Len(UpperCase) : UpperCase[k] = c
    THEN LowerCase[CHOOSE k \in 1..Len(UpperCase) : UpperCase[k] = c]
    ELSE c

\* The pattern is compiled as a regular expression (str.contains has regex=True
\* unless told otherwise). Of the metacharacters, the queries of this model hold
\* "." (any character) and "(" (which, never closed, makes re.compile raise).
RegexRaises(pat) == \E j \in 1..Len(pat) : pat[j] = "("

RegexMatchesAt(pat, t, p) ==
  \A j \in 1..Len(pat) : pat[j] = "." \/ Lower(pat[j]) = Lower(t[p + j - 1])

\* re.compile(pat, re.IGNORECASE).search(t) is not None
str_contains(t, pat) ==
  \E p \in 1..(Len(t) - Len(pat) + 1) : RegexMatchesAt(pat, t, p)

\* mask = Dog Name | Address | Filter
SearchMask(r, pat) ==
  \/ str_contains(r["Dog Name"], pat)
  \/ str_contains(r["Address"], pat)
  \/ str_contains(r["Filter"], pat)

\* display_df: the whole table for an empty search box, else df[mask]
Display(table, pat) ==
  IF pat = Empty THEN table
  ELSE SelectSeq(table, LAMBDA r : SearchMask(r, pat))

\* Series.unique(): the distinct values, first seen first
RECURSIVE Unique(_, _)
Unique(vals, seen) ==
  IF vals = << >> THEN seen
  ELSE IF \E k \in 1..Len(seen) : seen[k] = Head(vals)
    THEN Unique(Tail(vals), seen)
    ELSE Unique(Tail(vals), Append(seen, Head(vals)))

ColorChoices == {"Filter", "District", "Number of dogs"}

UniqueValues(disp, color_column) ==
  Unique([k \in 1..Len(disp) |-> disp[k][color_column]], << >>)

-----------------------------------------------------------------------------
(* main: the edit selector and the form *)

Separator == <<" ", "-", " ">>

\* f"{row['Dog Name']} - {row['Address']}"
DogOption(r) == r["Dog Name"] \o Separator \o r["Address"]

\* selected_dog.split(" - ")[0]: the text before the first separator
SplitFirst(t) ==
  LET hits == {p \in 1..(Len(t) - Len(Separator) + 1) :
                 SubSeq(t, p, p + Len(Separator) - 1) = Separator}
  IN  IF hits = {} THEN t
      ELSE SubSeq(t, 1, (CHOOSE p \in hits : \A o \in hits : p <= o) - 1)

\* display_df[display_df['Dog Name'] == dog_name]
NamedLike(disp, dog_name) == SelectSeq(disp, LAMBDA r : r["Dog Name"] = dog_name)

\* the rows the selector's k-th option resolves to; .iloc[0] takes the first
Resolved(disp, k) == NamedLike(disp, SplitFirst(DogOption(disp[k])))

\* .iloc[0] on no row raises IndexError
LookupRaises(disp, k) == Resolved(disp, k) = << >>

selected_row(disp, k) == Resolved(disp, k)[1]

RECURSIVE Pow10(_)
Pow10(n) == IF n = 0 THEN 1 ELSE 10 * Pow10(n - 1)

\* int(x) of a finite number: towards zero
ToInt(n) ==
  LET q == n.mant \div Pow10(n.scale) IN IF n.neg THEN 0 - q ELSE q

\* int() of an infinity raises, and st.number_input refuses a value below min_value=1
FormRaises(r) ==
  \/ ~IsFinite(r["Number of dogs"])
  \/ ToInt(r["Number of dogs"]) < 1

DigitChar(d) == CHOOSE c \in Digits : DigitVal(c) = d

\* the text the store shows for a positive whole number
RECURSIVE IntText(_)
IntText(n) ==
  IF n < 10 THEN <<DigitChar(n)>> ELSE IntText(n \div 10) \o <<DigitChar(n % 10)>>

\* the updates list of the submitted form: the fields typed by the user, the
\* others as the form pre-filled them from the selected row
FormUpdates(r, new_dog_name, new_address) ==
  << <<"Dog Name", new_dog_name>>,
     <<"Address", new_address>>,
     <<"District", r["District"]>>,
     <<"Filter", r["Filter"]>>,
     <<"Number of dogs", IntText(ToInt(r["Number of dogs"]))>>,
     <<"Today", r["Today"]>> >>

-----------------------------------------------------------------------------
(* update_sheet_cell and the loop that dispatches an edit *)

col_map ==
  [c \in {expected_headers[k] : k \in 1..NCols} |->
     CASE c = "Address" -> 1 [] c = "Dog Name" -> 2 [] c = "District" -> 3
       [] c = "Latitude" -> 4 [] c = "Longitude" -> 5 [] c = "Number of dogs" -> 6
       [] c = "Filter" -> 7 [] c = "Today" -> 8 [] c = "Group" -> 9
       [] c = "Dog ID" -> 10 [] c = "New Assignment" -> 11]

Recognized(col_name) == col_name \in DOMAIN col_map

\* sheet_row = row_idx + 2
RowOffset == 2

\* a variant that forgets the header row
sheet_row_without_header(row_idx) == row_idx + 1

sheet_row(row_idx) == row_idx + RowOffset

Max(a, b) == IF a > b THEN a ELSE b

\* the store after worksheet.update_cell(r, c, v): the grid grows to hold the cell
SetCell(sh, r, c, v) ==
  IF r <= Len(sh) /\ c <= Len(sh[r]) THEN [sh EXCEPT ![r][c] = v]
  ELSE LET w == Max(IF sh = << >> THEN 0 ELSE Len(sh[1]), c)
           h == Max(Len(sh), r)
       IN  [i \in 1..h |->
             [k \in 1..w |->
                IF i = r /\ k = c THEN v
                ELSE IF i <= Len(sh) /\ k <= Len(sh[i]) THEN sh[i][k]
                ELSE Blank]]

\* a variant that reports a skipped, unrecognized field as written
update_sheet_cell_counting_skipped(sh, row_idx, col_name, new_value, throw) ==
  IF Recognized(col_name)
    THEN LET call == [row |-> sheet_row(row_idx), col |-> col_map[col_name],
                      value |-> new_value, name |-> col_name, ok |-> ~throw]
         IN  IF throw
               THEN [ok |-> FALSE, sheet |-> sh, calls |-> <<call>>]
               ELSE [ok |-> TRUE, sheet |-> SetCell(sh, call.row, call.col, new_value),
                     calls |-> <<call>>]
    ELSE [ok |-> TRUE, sheet |-> sh, calls |-> << >>]

\* One call of update_sheet_cell on store sh. throw says whether update_cell raises.
\* ok is the value returned; calls holds the call of update_cell, if one was made.
update_sheet_cell(sh, row_idx, col_name, new_value, throw) ==
  IF Recognized(col_name)
    THEN LET call == [row |-> sheet_row(row_idx), col |-> col_map[col_name],
                      value |-> new_value, name |-> col_name, ok |-> ~throw]
         IN  IF throw
               THEN [ok |-> FALSE, sheet |-> sh, calls |-> <<call>>]
               ELSE [ok |-> TRUE, sheet |-> SetCell(sh, call.row, call.col, new_value),
                     calls |-> <<call>>]
    ELSE [ok |-> FALSE, sheet |-> sh, calls |-> << >>]

\* for col_name, new_value in updates: if update_sheet_cell(...): success_count += 1
\* throws is the set of positions of updates whose write raises
RECURSIVE DispatchFrom(_, _, _, _, _)
DispatchFrom(i, acc, row_idx, ups, throws) ==
  IF i > Len(ups) THEN acc
  ELSE LET u == update_sheet_cell(acc.sheet, row_idx, ups[i][1], ups[i][2], i \in throws)
       IN  DispatchFrom(i + 1,
                        [sheet |-> u.sheet,
                         writes |-> acc.writes \o u.calls,
                         count |-> IF u.ok THEN acc.count + 1 ELSE acc.count],
                        row_idx, ups, throws)

Dispatch(sh, row_idx, ups, throws) ==
  DispatchFrom(1, [sheet |-> sh, writes |-> << >>, count |-> 0], row_idx, ups, throws)

\* a variant that clears the cache only when more than one field was written
ClearsCacheAfterSeveral(count) == count > 1

\* if success_count > 0: st.cache_data.clear()
ClearsCache(count) == count > 0

-----------------------------------------------------------------------------
(* main: one run of the script per user interaction *)

\* the fetch outcomes that matter to a call: none when the cache answers
Outcomes == IF CacheHit THEN {"ok"} ELSE FetchOutcomes

\* what the call of line 139 may return
Loads == {load_sheet_data(out) : out \in Outcomes}

\* lines 146-247: the search box, the displayed subset disp and its colours
Rendered(disp, q, uv) ==
  /\ search_term' = q
  /\ display_df' = disp
  /\ unique_values' = uv
  /\ color_map' = generate_colors(uv, 0)

\* the positions the selector offers: none when nothing is displayed
Selectable(disp) == IF disp = << >> THEN {NoSelection} ELSE 1..Len(disp)

\* lines 252-277 raise: the lookup finds no row, or the form refuses the count
EditSectionRaises(disp, k) ==
  IF k = NoSelection THEN FALSE
  ELSE IF LookupRaises(disp, k) THEN TRUE
  ELSE FormRaises(selected_row(disp, k))

\* selected_idx = selected_row.name
Chosen(disp, k) ==
  /\ selected' = k
  /\ selected_idx' = IF k = NoSelection \/ LookupRaises(disp, k) THEN NoIndex
                     ELSE selected_row(disp, k)["idx"]

NoEdit ==
  /\ updates' = << >>
  /\ writes' = << >>
  /\ success_count' = 0

\* if search_term: the mask is computed, and re.compile may raise
SearchRaises(q) == q # Empty /\ RegexRaises(q)

\* a variant that goes on with an empty Table
ReturnsNever(table) == FALSE

\* if df.empty: ... return
ReturnsEarly(table) == table = << >>

\* lines 141-144: nothing loaded, the script returns
RunMainEmpty ==
  \E L \in Loads :
    /\ ReturnsEarly(L.df)
    /\ CallLoad(L)
    /\ UiIdle
    /\ EditIdle
    /\ lastRun' = "empty"
    /\ UNCHANGED sheet

\* re.compile raises on the search term: the run ends at line 162
RunMainSearchError(Queries) ==
  \E L \in Loads, q \in Queries :
    /\ ~ReturnsEarly(L.df)
    /\ SearchRaises(q)
    /\ CallLoad(L)
    /\ search_term' = q
    /\ display_df' = << >>
    /\ unique_values' = << >>
    /\ color_map' = << >>
    /\ EditIdle
    /\ lastRun' = "search error"
    /\ UNCHANGED sheet

\* a run that gets as far as the edit section: what it loaded, searched for and
\* displayed, the column it coloured by and the option selected
ShownFor(L, q, disp, Colors) ==
  {[L |-> L, q |-> q, disp |-> disp, k |-> k, color_by |-> color_by] :
     k \in Selectable(disp), color_by \in Colors}

Shown(Queries, Colors) ==
  UNION {ShownFor(L, q, Display(L.df, q), Colors) :
           L \in {x \in Loads : ~ReturnsEarly(x.df)},
           q \in {x \in Queries : ~SearchRaises(x)}}

\* the run ends in the edit section, at line 260 or 276
RunMainFormError(Queries, Colors) ==
  \E v \in Shown(Queries, Colors) :
    /\ EditSectionRaises(v.disp, v.k)
    /\ Chosen(v.disp, v.k)
    /\ CallLoad(v.L)
    /\ Rendered(v.disp, v.q, UniqueValues(v.disp, v.color_by))
    /\ NoEdit
    /\ lastRun' = "form error"
    /\ UNCHANGED sheet

\* a run that displays, with no button pressed
RunMainView(Queries, Colors) ==
  \E v \in Shown(Queries, Colors) :
    /\ ~EditSectionRaises(v.disp, v.k)
    /\ Chosen(v.disp, v.k)
    /\ CallLoad(v.L)
    /\ Rendered(v.disp, v.q, UniqueValues(v.disp, v.color_by))
    /\ NoEdit
    /\ lastRun' = "view"
    /\ UNCHANGED sheet

\* lines 281-304: the edit request ups, dispatched with result D
Submitted(ups, D) ==
  /\ sheet' = D.sheet
  /\ updates' = ups
  /\ writes' = D.writes
  /\ success_count' = D.count

\* if worksheet: ... else: st.error("No connection to Google Sheet")
DispatchIfConnected(handle, row_idx, ups, throws) ==
  IF handle # NULL THEN Dispatch(sheet, row_idx, ups, throws)
  ELSE [sheet |-> sheet, writes |-> << >>, count |-> 0]

\* the writes that raise: none, the first alone, or all from some write on
ThrowSets(n) == {{}, {1}} \cup {i..n : i \in 1..n}

NewNames == {<<"F">>}

\* what the user may submit for the selected row: the name typed over or not,
\* the other fields as the form shows them
Forms(row) ==
  {FormUpdates(row, new_dog_name, row["Address"]) :
     new_dog_name \in NewNames \cup {row["Dog Name"]}}

\* a run in which the user submits the edit form
RunMainSubmit(Queries, Colors) ==
  \E v \in Shown(Queries, Colors) :
    /\ v.k # NoSelection
    /\ ~EditSectionRaises(v.disp, v.k)
    /\ Chosen(v.disp, v.k)
    /\ \E row \in {selected_row(v.disp, v.k)} :
         \E ups \in Forms(row) :
           \E throws \in ThrowSets(Len(ups)) :
             \E D \in {DispatchIfConnected(v.L.worksheet, row["idx"], ups, throws)} :
               /\ Submitted(ups, D)
               /\ IF ClearsCache(D.count) THEN Cleared ELSE Cached(v.L)
    /\ Returned(v.L)
    /\ Rendered(v.disp, v.q, UniqueValues(v.disp, v.color_by))
    /\ lastRun' = "submit"

\* lines 320-322: the refresh button clears the cache and asks for a rerun
RunMainRefresh(Queries, Colors) ==
  \E v \in Shown(Queries, Colors) :
    /\ ~EditSectionRaises(v.disp, v.k)
    /\ Chosen(v.disp, v.k)
    /\ Returned(v.L)
    /\ Cleared
    /\ Rendered(v.disp, v.q, UniqueValues(v.disp, v.color_by))
    /\ NoEdit
    /\ lastRun' = "refresh"
    /\ UNCHANGED sheet

\* time passes while an entry is in the cache
Tick ==
  /\ cache.full
  /\ cacheAge < TTL
  /\ cacheAge' = Min(cacheAge + TickSeconds, TTL)
  /\ UNCHANGED <<sheet, cache, loadVars, uiVars, editVars, lastRun>>

-----------------------------------------------------------------------------
(* The dashboard: feeds of up to MaxRows data rows *)

NameSet == {<<"R">>, <<"R", " ", "-", " ", "F">>}

MainRows ==
  {MkRow(<<"a">>, n, <<"N">>, lat, <<"4">>, Empty, <<"A">>) :
     n \in NameSet, lat \in {<<"4">>, <<"0">>}}

RECURSIVE SeqsOfLen(_, _)
SeqsOfLen(S, n) ==
  IF n = 0 THEN {<< >>}
  ELSE {<<x>> \o t : x \in S, t \in SeqsOfLen(S, n - 1)}

SeqsUpTo(S, n) == UNION {SeqsOfLen(S, k) : k \in 0..n}

\* a store whose rows are too narrow for the eleven columns
NarrowFeed == <<Take(HeaderRow, LatCol), Take(GoodRow, LatCol)>>

MainFeeds(n) ==
  {<< >>, NarrowFeed} \cup {<<HeaderRow>> \o rows : rows \in SeqsUpTo(MainRows, n)}

MainQueries == {Empty, <<"f">>, <<"(">>}
MainColors == {"Filter"}

Init == sheet \in MainFeeds(MaxRows) /\ InitRest

Next ==
  \/ RunMainEmpty
  \/ RunMainSearchError(MainQueries)
  \/ RunMainFormError(MainQueries, MainColors)
  \/ RunMainView(MainQueries, MainColors)
  \/ RunMainSubmit(MainQueries, MainColors)
  \/ RunMainRefresh(MainQueries, MainColors)
  \/ Tick

Spec == Init /\ [][Next]_vars

-----------------------------------------------------------------------------
(* Properties of the dashboard *)

\* the Table a successful read of store sh yields
TableOf(sh) == Normalize(DataFrame(sh))

OkWrites == {j \in 1..Len(writes) : writes[j].ok}

\* C6 (state part): a submitted edit with at least one successful write leaves no
\* entry in the cache, whatever the entry's age was, and the store holds each
\* value written.
C6_NoEntryAfterEdit ==
  (lastRun = "submit" /\ success_count > 0) =>
    /\ ~cache.full
    /\ \A j \in OkWrites : sheet[writes[j].row][writes[j].col] = writes[j].value

\* C6 (step part): the call of load_sheet_data that follows such an edit runs the
\* function body, and the Table it returns, when the read succeeds, is the Table
\* of the store as the edit left it.
C6_NextLoadRereads ==
  (lastRun = "submit" /\ success_count > 0) =>
    /\ fetched'
    /\ load_error' = "none" => df' = TableOf(sheet)

\* C6: after an edit submission in which at least one cell write succeeded the
\* cached Table is invalidated, and the next call of load_sheet_data re-reads the
\* store and returns a Table that reflects the written values.
C6_EditInvalidatesCache == [](C6_NoEntryAfterEdit) /\ [][C6_NextLoadRereads]_vars

\* a reload, after an edit, whose Table shows the name the edit wrote
C6_Witness ==
  /\ lastRun = "view"
  /\ fetched
  /\ cacheAge = 0
  /\ \E i \in 1..Len(df) : df[i]["Dog Name"] = <<"F">>

\* C8: when a step of the retrieval fails, load_sheet_data returns an empty Table
\* with a null handle, and it never returns a null handle with a non-empty Table.
C8_FailedLoadIsEmptyAndNull ==
  /\ load_error # "none" => (df = << >> /\ worksheet = NULL)
  /\ worksheet = NULL => df = << >>
  /\ cache.full /\ cache.worksheet = NULL => cache.df = << >>

\* a load that failed while building the table
C8_Witness ==
  /\ fetched
  /\ load_error = "frame"
  /\ df = << >>
  /\ worksheet = NULL

\* C9: every cell write of a submitted edit goes to the store row the selected
\* record was loaded from: its position among the feed's data rows, plus 2.
C9_WritesGoToSelectedRow ==
  lastRun = "submit" =>
    \A j \in 1..Len(writes) : writes[j].row = display_df[selected]["idx"] + 2

\* C10 (state part): a run that loaded an empty Table attempts no write and leaves
\* the entry in the cache; no write is ever attempted with a null handle.
C10_EmptyRunWritesNothing ==
  /\ lastRun = "empty" =>
       /\ df = << >>
       /\ writes = << >>
       /\ success_count = 0
       /\ cache.full /\ cache.df = << >>
  /\ writes # << >> => worksheet # NULL

\* C10 (step part): while an empty result is in the cache and younger than the
\* ttl, no step removes or replaces it, the store is not written, and a run is
\* served the empty result without re-reading the store.
C10_EmptyEntryStays ==
  (cache.full /\ cache.df = << >> /\ cacheAge < TTL) =>
    /\ cache' = cache
    /\ sheet' = sheet
    /\ df' = << >>
    /\ cacheAge' = cacheAge => (~fetched' /\ lastRun' = "empty")

\* C10: a run of main whose loaded Table is empty returns before the edit form
\* and the refresh control, so it writes nothing and does not invalidate the
\* cache; no write is attempted with a null handle; the cached empty result is
\* served until the cache window expires.
C10_EmptyRunIsInert == [](C10_EmptyRunWritesNothing) /\ [][C10_EmptyEntryStays]_vars

\* an empty result served from the cache after time has passed
C10_Witness ==
  /\ lastRun = "empty"
  /\ ~fetched
  /\ cacheAge > 0
  /\ cacheAge < TTL
  /\ worksheet = NULL

-----------------------------------------------------------------------------
(* The search filter on its own: every query of at most MaxQueryLen characters, *)
(* letters of both cases and the characters "." and "(", on feeds whose names,  *)
(* addresses and filters hold letters and a ".".                                *)

QueryChars == {"a", "B", ".", "("}
SearchQueries(n) == TextsUpTo(QueryChars, n)

SearchRows ==
  {MkRow(addr, name, <<"N">>, <<"4">>, <<"4">>, Empty, filter) :
     name \in {<<"a", "b">>, <<"B">>, <<"a", ".">>},
     addr \in {<<"b", "a">>, <<"x">>},
     filter \in {<<"A">>}}

SearchFeeds(n) ==
  {<<HeaderRow>> \o rows : rows \in SeqsUpTo(SearchRows, n) \ {<< >>}}

InitSearch == sheet \in SearchFeeds(MaxRows) /\ InitRest

NextSearch ==
  \/ RunMainEmpty
  \/ RunMainSearchError(SearchQueries(MaxQueryLen))
  \/ RunMainView(SearchQueries(MaxQueryLen), ColorChoices)

SpecSearch == InitSearch /\ [][NextSearch]_vars

\* t, case-folded, contains pat, case-folded, as a literal substring
LiteralContains(t, pat) ==
  \E p \in 1..(Len(t) - Len(pat) + 1) :
    \A j \in 1..Len(pat) : Lower(pat[j]) = Lower(t[p + j - 1])

LiteralMask(r, pat) ==
  \/ LiteralContains(r["Dog Name"], pat)
  \/ LiteralContains(r["Address"], pat)
  \/ LiteralContains(r["Filter"], pat)

\* C4: for a non-empty query the displayed subset is exactly the records of the
\* Table one of whose Dog Name, Address or Filter contains the query as a literal
\* substring, case aside, in the Table's order.
C4_LiteralSubstringSearch ==
  (lastRun = "view" /\ search_term # Empty) =>
    display_df = SelectSeq(df, LAMBDA r : LiteralMask(r, search_term))

-----------------------------------------------------------------------------
(* The edit dispatcher on its own: lines 282-302 with a live handle, for any   *)
(* row index up to MaxRowIdx and any request of up to MaxUpdates pairs.        *)

\* the recognized names with the unrecognized ones among them
AllNames ==
  <<"Address", "Dog Name", "Owner", "District", "Latitude", "Longitude",
    "Number of dogs", "Filter", "dog name", "Today", "Group", "Dog ID",
    "New Assignment">>

\* the value of the pair at position i
ValueAt(i) == IntText(i)

\* n consecutive names of AllNames, round from position s
Window(s, n) ==
  [i \in 1..n |-> <<AllNames[((s + i - 2) % Len(AllNames)) + 1], ValueAt(i)>>]

\* any names, repeated or not, among three
Mixed(names) == [i \in 1..Len(names) |-> <<names[i], ValueAt(i)>>]

\* the requests of at most max pairs
EditRequests(max) ==
  {Window(s, n) : s \in 1..Len(AllNames), n \in 0..max}
  \cup {Mixed(names) : names \in SeqsUpTo({"Dog Name", "Owner", "Today"}, max)}

DispatchFeeds == {<<HeaderRow>>, <<HeaderRow, GoodRow>>, <<HeaderRow, GoodRow, GoodRow>>}

InitDispatch == sheet \in DispatchFeeds /\ InitRest

DispatchEdit ==
  /\ lastRun = "none"
  /\ \E row_idx \in 0..MaxRowIdx, ups \in EditRequests(MaxUpdates) :
       \E throws \in SUBSET (1..Len(ups)) :
         \E D \in {DispatchIfConnected(Handle, row_idx, ups, throws)} :
           /\ Submitted(ups, D)
           /\ selected_idx' = row_idx
           /\ IF ClearsCache(D.count) THEN Cleared ELSE UNCHANGED cacheVars
  /\ worksheet' = Handle
  /\ lastRun' = "submit"
  /\ UNCHANGED <<df, fetched, load_error, uiVars, selected>>

NextDispatch == DispatchEdit

SpecDispatch == InitDispatch /\ [][NextDispatch]_vars

\* the field names and columns as the store's layout documents them
DocumentedColumn(name) ==
  CASE name = "Address" -> 1 [] name = "Dog Name" -> 2 [] name = "District" -> 3
    [] name = "Latitude" -> 4 [] name = "Longitude" -> 5
    [] name = "Number of dogs" -> 6 [] name = "Filter" -> 7 [] name = "Today" -> 8
    [] name = "Group" -> 9 [] name = "Dog ID" -> 10 [] name = "New Assignment" -> 11
    [] OTHER -> 0

\* the positions of the request whose field name is a column of the store
RecognizedPairs == {i \in 1..Len(updates) : DocumentedColumn(updates[i][1]) # 0}

\* the pair the j-th call of update_cell was made for: the j-th recognized one
RECURSIVE NthRecognized(_, _)
NthRecognized(j, from) ==
  IF from \in RecognizedPairs
    THEN IF j = 1 THEN from ELSE NthRecognized(j - 1, from + 1)
    ELSE NthRecognized(j, from + 1)

\* C5: the reported count is the number of pairs with a recognized name whose
\* write did not throw: an unrecognized name causes no call and no error, a call
\* that throws does not stop the later pairs, and a written cell is not rolled
\* back.
C5_SuccessCountExact ==
  lastRun = "submit" =>
    /\ Len(writes) = Cardinality(RecognizedPairs)
    /\ success_count = Cardinality(OkWrites)
    /\ \A j \in 1..Len(writes) :
         /\ writes[j].name = updates[NthRecognized(j, 1)][1]
         /\ writes[j].value = updates[NthRecognized(j, 1)][2]
    /\ \A j \in OkWrites :
         \/ \E l \in OkWrites :
              l > j /\ writes[l].row = writes[j].row /\ writes[l].col = writes[j].col
         \/ sheet[writes[j].row][writes[j].col] = writes[j].value

\* three recognized fields and one unrecognized, all writes succeeding: 3
C5_Witness ==
  /\ lastRun = "submit"
  /\ Len(updates) = 4
  /\ Cardinality(RecognizedPairs) = 3
  /\ Cardinality(OkWrites) = 3
  /\ success_count = 3

\* the cell (i, k) of store sh, blank outside its grid
CellOf(sh, i, k) == IF i <= Len(sh) /\ k <= Len(sh[i]) THEN sh[i][k] ELSE Blank

\* C7 (step): every call made for row index r and field f is for the cell at row
\* r + 2 and at f's documented column, one call per recognized pair, and the
\* store changes at the cells written and nowhere else.
C7_OneCellAtOffsetRow ==
  (lastRun = "none" /\ lastRun' = "submit") =>
    /\ Len(writes') = Cardinality(RecognizedPairs')
    /\ \A j \in 1..Len(writes') :
         /\ writes'[j].row = selected_idx' + 2
         /\ writes'[j].col = DocumentedColumn(writes'[j].name)
    /\ \A i \in 1..Len(sheet') : \A k \in 1..Len(sheet'[i]) :
         IF \E j \in OkWrites' : writes'[j].row = i /\ writes'[j].col = k
           THEN \E j \in OkWrites' :
                  writes'[j].row = i /\ writes'[j].col = k /\ writes'[j].value = sheet'[i][k]
           ELSE sheet'[i][k] = CellOf(sheet, i, k)

\* C7: update_sheet_cell, for row index r >= 0 and a recognized field f, writes
\* exactly one cell, at store row r + 2 and at the fixed column of f.
C7_WritesRowPlusTwo == [][C7_OneCellAtOffsetRow]_vars

\* row index 3 with the name field writes store row 5
C7_Witness ==
  /\ lastRun = "submit"
  /\ selected_idx = 3
  /\ \E j \in OkWrites :
       /\ writes[j].name = "Dog Name"
       /\ writes[j].row = 5
       /\ writes[j].col = 2
       /\ sheet[5][2] = writes[j].value

====
